---- MODULE Spec2Model ----
(***************************************************************************)
(* IMLADRIS: the point-in-time statistics cache (math.js), the CSV         *)
(* ingestion that feeds it (data.js) and the global State (state.js).      *)
(*                                                                         *)
(* Numbers.  The category values and the OVERALL rating are naturals; the  *)
(* statistics the code derives from them (means, population deviations,    *)
(* z-scores) are modelled by their exact real value:                       *)
(*   - a rational is a reduced fraction [n, d] with d > 0;                 *)
(*   - a z-score is sign * sqrt(p / q), kept as [s, p, q] with p/q reduced *)
(*     (every z-score of the code is a rational divided by the square root *)
(*     of a rational, or by 1).                                            *)
(* Both forms are canonical, so equality of records is equality of values. *)
(* Sums and quotients of whole numbers this small are exact in IEEE-754     *)
(* doubles too; the rounding of fractional cell values is not modelled.    *)
(* Column names of a header are distinct.                                  *)
(* A JavaScript null / absent property is the empty sequence None, a       *)
(* present value x is Some(x) = <<x>>.                                     *)
(***************************************************************************)
EXTENDS Integers, Sequences, FiniteSets, TLC

VARIABLES
    data,            \* State.data: chronological list of day records
    categories,      \* State.categories: ordered list of category names
    cache,           \* State.cache: date -> cache entry
    active,          \* State.animation.active
    currentDate,     \* State.animation.currentDate (None = null)
    frame,           \* State.animation.frame
    timer,           \* State.animation.timer (None = null)
    sortDate,        \* State.view.sortDate
    highlightedCats, \* State.view.highlightedCats
    hiddenCats,      \* State.view.hiddenCats
    sortMode,        \* State.sortMode
    patternRef,      \* State.pattern.referenceDate
    patternResults,  \* State.pattern.results
    pending,         \* text the FileReader of handleFileInput is delivering
    notice,          \* last callback of handleFileInput: onDataLoaded / onDataError
    settings,        \* State.settings: cautionThreshold, alertThreshold
    insights,        \* what getDivergence returned, per record, to the insights panel
    patternQuery,    \* the arguments and the compared categories of the last search
    direction,       \* State.animation.direction
    intervals,       \* handles of the interval timers that are running in the page
    restarts,        \* startAnimation calls setSpeed has scheduled with setTimeout
    halted,          \* jumpToDate, resetToLatest or a load ran since the user last started
    drawn,           \* State.view.sortDate as the Viz.render of the last tick saw it
    control          \* what ran last: "loadCSV", "tick", "delayedStart", "jumpToDate",
                     \* "stepForward", "stepBack" (button or arrow key), or "panel"
                     \* for Play/Pause, the speed, the direction and the reset

vars == <<data, categories, cache, active, currentDate, frame, timer, sortDate,
          highlightedCats, hiddenCats, sortMode, patternRef, patternResults,
          pending, notice, settings, insights, patternQuery,
          direction, intervals, restarts, halted, drawn, control>>

\* What the animation engine keeps besides State.animation's fields above.
player == <<direction, intervals, restarts, halted, drawn, control>>

None == <<>>
Some(x) == <<x>>

\* ------------------------------------------------------------------------
\* Bounds and input alphabets
\* ------------------------------------------------------------------------
\* Longest CSV file (data rows) that is loaded.
MaxRows == 3

\* Calendar days (day numbers) a row of a file with free dates can carry.
Days == {1, 2, 3}

\* Category cells (None: an empty or non-numeric cell).
SoloCells == {None, Some(1), Some(2)}
FirstCells == {None, Some(0), Some(1)}
SecondCells == {None, Some(0), Some(1), Some(2)}

\* OVERALL cells of the files whose rating varies; the other files hold
\* FlatOverall in every row.
Overalls == {5, 6}
FlatOverall == Some(5)

\* Header category lists.  "7" is a column name that is a canonical array
\* index in JavaScript; "a" and "b" are not.
SoloCats == <<"a">>
PairCatLists == {<<"a", "b">>, <<"b", "7">>}

\* ------------------------------------------------------------------------
\* Arithmetic
\* ------------------------------------------------------------------------
Abs(x) == IF x < 0 THEN -x ELSE x

Sign(x) == IF x < 0 THEN -1 ELSE IF x = 0 THEN 0 ELSE 1

RECURSIVE GCD(_, _)
GCD(a, b) == IF b = 0 THEN a ELSE GCD(b, a % b)

LCM(a, b) == (a \div GCD(a, b)) * b

\* The reduced fraction n / d (d > 0).
Rat(n, d) == LET g == GCD(Abs(n), d) IN [n |-> n \div g, d |-> d \div g]

RECURSIVE SumSeq(_)
SumSeq(s) == IF s = <<>> THEN 0 ELSE Head(s) + SumSeq(Tail(s))

RECURSIVE SumSqSeq(_)
SumSqSeq(s) == IF s = <<>> THEN 0 ELSE Head(s) * Head(s) + SumSqSeq(Tail(s))

RECURSIVE LCMSeq(_)
LCMSeq(s) == IF s = <<>> THEN 1 ELSE LCM(Head(s), LCMSeq(Tail(s)))

\* The present values of a list of optional values, in order:
\* .filter(v => v !== null && v !== undefined && !isNaN(v)).
RECURSIVE Present(_)
Present(s) ==
    IF s = <<>> THEN <<>>
    ELSE IF Head(s) = None THEN Present(Tail(s))
         ELSE <<Head(s)[1]>> \o Present(Tail(s))

ZeroZ == [s |-> 0, p |-> 0, q |-> 1]

\* What a division by a deviation of 0 gives (NaN or an infinity): no z-score.
NotANumber == [s |-> 0, p |-> 0, q |-> 0]

\* The z-score (a / b) / sqrt(c / d), with b, d > 0 and c >= 0, in canonical
\* form.
MkZ(a, b, c, d) ==
    IF c = 0 THEN NotANumber
    ELSE IF a = 0 THEN ZeroZ
    ELSE LET r == Rat(a * a * d, b * b * c)
         IN  [s |-> Sign(a), p |-> r.n, q |-> r.d]

\* z1 - z2 < 0, the order the comparator (a, b) => a - b sorts by.
ZLess(z1, z2) == z1.s * z1.p * z2.q < z2.s * z2.p * z1.q


\* ------------------------------------------------------------------------
\* math.js: buildPointInTimeCache
\* ------------------------------------------------------------------------
\* n^2 * scale^2 times the population variance of a window of values that
\* are given multiplied by scale:
\*   mean = sum / n;  variance = sum((v - mean)^2) / n.
ScaledVariance(series) ==
    Len(series) * SumSqSeq(series) - SumSeq(series) * SumSeq(series)

\* Mutant: const std = Math.sqrt(variance), the guard left out.
StdSquaredUnguarded(series, scale) ==
    [n |-> ScaledVariance(series), d |-> Len(series) * Len(series) * scale * scale]

\* std^2 as a fraction: const std = Math.sqrt(variance) || 1.
StdSquared(series, scale) ==
    LET n == Len(series)
        D == ScaledVariance(series)
    IN  IF D = 0 THEN [n |-> 1, d |-> 1]
        ELSE [n |-> D, d |-> n * n * scale * scale]

\* (today - mean) / std over the window `series`; today and the window are
\* given multiplied by scale.
Standardize(today, series, scale) ==
    LET n == Len(series)
        sq == StdSquared(series, scale)
    IN  MkZ(n * today - SumSeq(series), n * scale, sq.n, sq.d)

\* history.map(d => d.values[cat]).filter(present)
ValuesOf(history, cat) ==
    Present([j \in 1..Len(history) |-> history[j].values[cat]])

\* const history = sorted.slice(0, i + 1)   (i counts from 1 here)
History(sorted, i) == SubSeq(sorted, 1, i)

\* Mutant: if (values.length < 1) continue.
StatsCatsOneValue(history, cats) ==
    {cats[k] : k \in {k \in 1..Len(cats) : Len(ValuesOf(history, cats[k])) >= 1}}

\* The categories that get stats[cat]: at least 2 values in the window.
StatsCats(history, cats) ==
    {cats[k] : k \in {k \in 1..Len(cats) : Len(ValuesOf(history, cats[k])) >= 2}}

\* STEP 1: the z-scores of day i.
ZScoresOf(sorted, cats, i) ==
    LET history == History(sorted, i)
        entry == sorted[i]
        keys == {c \in StatsCats(history, cats) : entry.values[c] # None}
    IN  [c \in keys |-> Standardize(entry.values[c][1], ValuesOf(history, c), 1)]

\* Column names that are canonical array indices, with their numeric value.
IntegerKeys == [c \in {"7"} |-> 7]

RECURSIVE AscendingKeys(_)
AscendingKeys(S) ==
    IF S = {} THEN <<>>
    ELSE LET m == CHOOSE x \in S : \A y \in S : IntegerKeys[x] <= IntegerKeys[y]
         IN  <<m>> \o AscendingKeys(S \ {m})

\* Object.entries(zScores): integer-like keys first, in ascending numeric
\* order, then the other keys in insertion order (the order of cats).
ObjectKeys(K, cats) ==
    LET IsOther(c) == c \in K /\ c \notin DOMAIN IntegerKeys
    IN  AscendingKeys(K \cap DOMAIN IntegerKeys) \o SelectSeq(cats, IsOther)

\* x put into the sorted list s before the first element it is less than.
RECURSIVE InsertByZ(_, _, _)
InsertByZ(x, s, z) ==
    IF s = <<>> THEN <<x>>
    ELSE IF ZLess(z[x], z[Head(s)]) THEN <<x>> \o s
         ELSE <<Head(s)>> \o InsertByZ(x, Tail(s), z)

\* .sort(([, a], [, b]) => a - b): stable, ascending by z-score.
RECURSIVE SortByZ(_, _)
SortByZ(keys, z) ==
    IF keys = <<>> THEN <<>>
    ELSE InsertByZ(keys[Len(keys)], SortByZ(SubSeq(keys, 1, Len(keys) - 1), z), z)

\* Mutant: ranks[cat] = idx.
RanksFromZero(zScores, cats) ==
    LET ranked == SortByZ(ObjectKeys(DOMAIN zScores, cats), zScores)
    IN  [c \in DOMAIN zScores |-> (CHOOSE k \in 1..Len(ranked) : ranked[k] = c) - 1]

\* STEP 2: ranked.forEach(([cat], idx) => ranks[cat] = idx + 1)
RanksOf(zScores, cats) ==
    LET ranked == SortByZ(ObjectKeys(DOMAIN zScores, cats), zScores)
    IN  [c \in DOMAIN zScores |-> CHOOSE k \in 1..Len(ranked) : ranked[k] = c]

\* Mutant: the sum of the present values divided by vals.length.
RawAvgOverAllCells(vals) ==
    LET v == Present(vals)
    IN  IF Len(v) > 0 THEN Some(Rat(SumSeq(v), Len(vals))) ELSE None

\* const rawAvg = vals => ...: mean of the present values, or null.
RawAvg(vals) ==
    LET v == Present(vals)
    IN  IF Len(v) > 0 THEN Some(Rat(SumSeq(v), Len(v))) ELSE None

\* Mutant: rawAvg(cats.map(c => d.values[c] || 0)), a missing value counted as 0.
DayAvgMissingIsZero(d, cats) ==
    RawAvg([k \in 1..Len(cats) |->
               IF d.values[cats[k]] = None THEN Some(0) ELSE d.values[cats[k]]])

\* rawAvg(cats.map(c => d.values[c]))
DayAvg(d, cats) == RawAvg([k \in 1..Len(cats) |-> d.values[cats[k]]])

\* Mutant: the historical averages taken over the whole of sorted, not history.
IndexZOfWholeData(sorted, cats, i) ==
    LET todayAvg == DayAvg(sorted[i], cats)
        historicalAvgs == Present([j \in 1..Len(sorted) |-> DayAvg(sorted[j], cats)])
        scale == LCMSeq([j \in 1..Len(historicalAvgs) |-> historicalAvgs[j].d])
        Scaled(r) == r.n * (scale \div r.d)
    IN  IF todayAvg = None THEN None
        ELSE IF Len(historicalAvgs) >= 2
             THEN Some(Standardize(Scaled(todayAvg[1]),
                                   [j \in 1..Len(historicalAvgs) |-> Scaled(historicalAvgs[j])],
                                   scale))
             ELSE None

\* STEP 3: indexZ of day i.
IndexZOf(sorted, cats, i) ==
    LET history == History(sorted, i)
        todayAvg == DayAvg(sorted[i], cats)
        historicalAvgs == Present([j \in 1..Len(history) |-> DayAvg(history[j], cats)])
        scale == LCMSeq([j \in 1..Len(historicalAvgs) |-> historicalAvgs[j].d])
        Scaled(r) == r.n * (scale \div r.d)
    IN  IF todayAvg = None THEN None
        ELSE IF Len(historicalAvgs) >= 2
             THEN Some(Standardize(Scaled(todayAvg[1]),
                                   [j \in 1..Len(historicalAvgs) |-> Scaled(historicalAvgs[j])],
                                   scale))
             ELSE None

\* Mutant: if (overallHistory.length >= 1).
OverallZOfOneValue(sorted, i) ==
    LET history == History(sorted, i)
        overallHistory == [j \in 1..Len(history) |-> history[j].overall]
    IN  IF Len(overallHistory) >= 1
        THEN Some(Standardize(sorted[i].overall, overallHistory, 1))
        ELSE None

\* STEP 4: overallZ of day i.
OverallZOf(sorted, i) ==
    LET history == History(sorted, i)
        overallHistory == [j \in 1..Len(history) |-> history[j].overall]
    IN  IF Len(overallHistory) >= 2
        THEN Some(Standardize(sorted[i].overall, overallHistory, 1))
        ELSE None

\* The entry stored for the record at position i.
EntryOf(sorted, cats, i) ==
    LET zScores == ZScoresOf(sorted, cats, i)
    IN  [zScores |-> zScores,
         ranks |-> RanksOf(zScores, cats),
         indexZ |-> IndexZOf(sorted, cats, i),
         overallZ |-> OverallZOf(sorted, i),
         rawAvg |-> DayAvg(sorted[i], cats)]

DatesOf(sorted) == {sorted[i].date : i \in 1..Len(sorted)}

\* The last position that writes State.cache[date].
LastIndexOf(sorted, date) ==
    CHOOSE i \in 1..Len(sorted) :
        /\ sorted[i].date = date
        /\ \A j \in (i + 1)..Len(sorted) : sorted[j].date # date

\* State.cache = {}; for each record in order: State.cache[date] = {...}.
BuildPointInTimeCache(sorted, cats) ==
    [date \in DatesOf(sorted) |-> EntryOf(sorted, cats, LastIndexOf(sorted, date))]

\* ------------------------------------------------------------------------
\* data.js: parseCSV, loadCSV
\* A CSV text is its header (is there an OVERALL column; the category
\* columns, in order) and its data rows.  A row holds its parsed cells:
\* date (None: new Date(dateRaw) is invalid), overall (None: parseFloat is
\* NaN) and one optional number per category column.
\* ------------------------------------------------------------------------
\* The rows parseCSV keeps: a valid date and a numeric OVERALL.
RECURSIVE ValidRows(_)
ValidRows(rows) ==
    IF rows = <<>> THEN <<>>
    ELSE LET r == Head(rows)
         IN  IF r.date = None \/ r.overall = None THEN ValidRows(Tail(rows))
             ELSE <<[date |-> r.date[1], overall |-> r.overall[1], values |-> r.values]>>
                  \o ValidRows(Tail(rows))

\* d put into the date-sorted list s after every record not later than it.
RECURSIVE InsertByDate(_, _)
InsertByDate(d, s) ==
    IF s = <<>> THEN <<d>>
    ELSE IF d.date < Head(s).date THEN <<d>> \o s
         ELSE <<Head(s)>> \o InsertByDate(d, Tail(s))

\* data.sort((a, b) => new Date(a.date) - new Date(b.date)): stable.
RECURSIVE SortByDate(_)
SortByDate(rows) ==
    IF rows = <<>> THEN <<>>
    ELSE InsertByDate(rows[Len(rows)], SortByDate(SubSeq(rows, 1, Len(rows) - 1)))

\* The message parseCSV throws, "" when it returns.
ParseError(text) ==
    IF text.rows = <<>> THEN "CSV must contain a header row and at least one data row."
    ELSE IF ~text.overallCol THEN "CSV must include an OVERALL column."
    ELSE IF text.cats = <<>> THEN "CSV must include at least one category column."
    ELSE IF ValidRows(text.rows) = <<>> THEN "No valid data rows found."
    ELSE ""

ParseCSV(text) ==
    [categories |-> text.cats, data |-> SortByDate(ValidRows(text.rows))]

\* ------------------------------------------------------------------------
\* The files that are loaded
\* ------------------------------------------------------------------------
Lengths == 0..MaxRows

Text(cats, rows) == [overallCol |-> TRUE, cats |-> cats, rows |-> rows]

SoloValues(cell) == [c \in {SoloCats[1]} |-> cell]

\* One category, a flat rating: rows in any order of dates (also repeated
\* ones), and rows parseCSV skips (an invalid date, a non-numeric OVERALL).
SoloRows ==
    {[date |-> Some(d), overall |-> FlatOverall, values |-> SoloValues(cell)] :
        d \in Days, cell \in SoloCells}
    \cup {[date |-> None, overall |-> FlatOverall, values |-> SoloValues(Some(1))],
          [date |-> Some(1), overall |-> None, values |-> SoloValues(Some(1))]}

\* One category, a rating that varies: one row per day, in order.
RatedRowsOf(cells) ==
    [k \in DOMAIN cells |->
        [date |-> Some(k), overall |-> Some(cells[k][1]), values |-> SoloValues(cells[k][2])]]

\* Two categories, a flat rating: one row per day, in order.
PairRowsOf(cats, cells) ==
    [k \in DOMAIN cells |->
        [date |-> Some(k), overall |-> FlatOverall,
         values |-> [c \in {cats[1], cats[2]} |-> IF c = cats[1] THEN cells[k][1] ELSE cells[k][2]]]]

\* Headers parseCSV rejects.
BadHeaderTexts ==
    {[overallCol |-> FALSE, cats |-> SoloCats,
      rows |-> <<[date |-> Some(1), overall |-> None, values |-> SoloValues(Some(1))]>>],
     [overallCol |-> TRUE, cats |-> <<>>,
      rows |-> <<[date |-> Some(1), overall |-> FlatOverall, values |-> <<>>]>>]}

\* ------------------------------------------------------------------------
\* Exact sums of z-scores
\* A difference, a product or a mean of z-scores is a rational combination
\* of square roots.  It is kept as the function from square-free radicands
\* to non-zero reduced fractions, sum of x[g] * sqrt(g): the square roots of
\* distinct square-free numbers are linearly independent over the
\* rationals, so the form is canonical and the empty function is 0.
\* ------------------------------------------------------------------------
RatZero == [n |-> 0, d |-> 1]

RatOfInt(k) == [n |-> k, d |-> 1]

RatAdd(x, y) ==
    LET m == LCM(x.d, y.d)
    IN  Rat(x.n * (m \div x.d) + y.n * (m \div y.d), m)

RatMul(x, y) ==
    LET g == GCD(Abs(x.n), y.d)
        h == GCD(Abs(y.n), x.d)
    IN  [n |-> (x.n \div g) * (y.n \div h), d |-> (x.d \div h) * (y.d \div g)]

RatNeg(x) == [n |-> -x.n, d |-> x.d]

RECURSIVE RatSum(_, _)
RatSum(S, f) ==
    IF S = {} THEN RatZero
    ELSE LET x == CHOOSE y \in S : TRUE IN RatAdd(f[x], RatSum(S \ {x}, f))

\* What arithmetic on NaN gives.
NotAReal == [g \in {0} |-> RatZero]

IsNaN(x) == 0 \in DOMAIN x

RealZero == [g \in {} |-> RatZero]

RealOfRat(r) == [g \in (IF r.n = 0 THEN {} ELSE {1}) |-> r]

Coef(x, g) == IF g \in DOMAIN x THEN x[g] ELSE RatZero

NonZeroTerms(f) == [g \in {h \in DOMAIN f : f[h].n # 0} |-> f[g]]

Plus(x, y) ==
    IF IsNaN(x) \/ IsNaN(y) THEN NotAReal
    ELSE NonZeroTerms([g \in DOMAIN x \cup DOMAIN y |-> RatAdd(Coef(x, g), Coef(y, g))])

Negate(x) == [g \in DOMAIN x |-> RatNeg(x[g])]

Minus(x, y) == Plus(x, Negate(y))

Scale(x, r) == IF IsNaN(x) THEN NotAReal ELSE NonZeroTerms([g \in DOMAIN x |-> RatMul(x[g], r)])

\* sqrt(g) * sqrt(h) = GCD(g, h) * sqrt(RadicandOf(g, h)) for square-free g, h.
RadicandOf(g, h) == (g \div GCD(g, h)) * (h \div GCD(g, h))

Times(x, y) ==
    IF IsNaN(x) \/ IsNaN(y) THEN NotAReal
    ELSE LET pairs == (DOMAIN x) \X (DOMAIN y)
             term == [gh \in pairs |->
                         RatMul(RatMul(x[gh[1]], y[gh[2]]), RatOfInt(GCD(gh[1], gh[2])))]
             radicands == {RadicandOf(gh[1], gh[2]) : gh \in pairs}
         IN  NonZeroTerms([g \in radicands |->
                 RatSum({gh \in pairs : RadicandOf(gh[1], gh[2]) = g}, term)])

RECURSIVE SmallestFactor(_, _)
SmallestFactor(n, k) == IF n % k = 0 THEN k ELSE SmallestFactor(n, k + 1)

RECURSIVE LCMOver(_, _)
LCMOver(S, f) ==
    IF S = {} THEN 1
    ELSE LET x == CHOOSE y \in S : TRUE IN LCM(f[x].d, LCMOver(S \ {x}, f))

RECURSIVE GCDOver(_, _)
GCDOver(S, f) ==
    IF S = {} THEN 0
    ELSE LET x == CHOOSE y \in S : TRUE IN GCD(Abs(f[x].n), GCDOver(S \ {x}, f))

\* x times the positive rational that makes its coefficients coprime whole
\* numbers: of the same sign as x.
Primitive(x) ==
    IF DOMAIN x = {} THEN x
    ELSE LET m == LCMOver(DOMAIN x, x)
             whole == [g \in DOMAIN x |-> x[g].n * (m \div x[g].d)]
             k == GCDOver(DOMAIN x, [g \in DOMAIN x |-> RatOfInt(whole[g])])
         IN  [g \in DOMAIN x |-> RatOfInt(whole[g] \div k)]

\* The largest r in lo..hi with r * r <= m.
RECURSIVE IsqrtIn(_, _, _)
IsqrtIn(m, lo, hi) ==
    IF lo = hi THEN lo
    ELSE LET mid == (lo + hi + 1) \div 2
         IN  IF mid * mid <= m THEN IsqrtIn(m, mid, hi) ELSE IsqrtIn(m, lo, mid - 1)

Isqrt(m) == IsqrtIn(m, 0, 46340)

RECURSIVE IntSum(_, _)
IntSum(S, f) ==
    IF S = {} THEN 0
    ELSE LET x == CHOOSE y \in S : TRUE IN f[x] + IntSum(S \ {x}, f)

\* Whole numbers low <= k * x <= high for some k > 0, x with whole
\* coefficients: sqrt(g) is enclosed between r / k and (r + 1) / k.
Enclosure(x) ==
    LET size == [g \in DOMAIN x |-> Abs(x[g].n)]
        largest == CHOOSE c \in {size[g] : g \in DOMAIN x} : \A g \in DOMAIN x : size[g] <= c
        widest == Isqrt(CHOOSE g \in DOMAIN x : \A h \in DOMAIN x : h <= g) + 1
        fine == 46340 \div widest
        safe == (2000000000 \div Cardinality(DOMAIN x)) \div (largest * widest)
        k == IF safe < fine THEN safe ELSE fine
        r == [g \in DOMAIN x |-> Isqrt(g * k * k)]
        Exact(g) == r[g] * r[g] = g * k * k
        under == [g \in DOMAIN x |->
                     IF x[g].n > 0 \/ Exact(g) THEN x[g].n * r[g] ELSE x[g].n * (r[g] + 1)]
        over == [g \in DOMAIN x |->
                    IF x[g].n < 0 \/ Exact(g) THEN x[g].n * r[g] ELSE x[g].n * (r[g] + 1)]
    IN  [low |-> IntSum(DOMAIN x, under), high |-> IntSum(DOMAIN x, over)]

\* The sign of x.  Terms of one sign give it; two terms a * sqrt(g) and
\* b * sqrt(h) of opposite signs are compared by their squares when those
\* are small; else the sign is read off an enclosure of x when that excludes
\* 0.  Else, with x = P + Q * sqrt(pr) for a prime pr that divides a radicand
\* of x and P, Q free of sqrt(pr): when P and Q differ in sign, the sign of x
\* is that of P exactly when P^2 > pr * Q^2.
RECURSIVE SignOf(_)
SignOf(x) ==
    LET signs == {Sign(x[g].n) : g \in DOMAIN x}
        roots == DOMAIN x \ {1}
        y == Primitive(x)
        g1 == CHOOSE g \in DOMAIN y : \A h \in DOMAIN y : g <= h
        g2 == CHOOSE g \in DOMAIN y : \A h \in DOMAIN y : h <= g
        small == /\ Cardinality(DOMAIN y) = 2
                 /\ g2 <= 2000 /\ Abs(y[g1].n) <= 1000 /\ Abs(y[g2].n) <= 1000
        bounds == Enclosure(y)
        pr == SmallestFactor(CHOOSE g \in roots : \A h \in roots : g <= h, 2)
        P == [g \in {h \in DOMAIN y : h % pr # 0} |-> y[g]]
        Q == [g \in {h \div pr : h \in {k \in DOMAIN y : k % pr = 0}} |-> y[g * pr]]
        sP == SignOf(P)
        sQ == SignOf(Q)
    IN  IF DOMAIN x = {} THEN 0
        ELSE IF signs = {1} THEN 1
        ELSE IF signs = {-1} THEN -1
        ELSE IF small
             THEN Sign(y[g1].n) * Sign(y[g1].n * y[g1].n * g1 - y[g2].n * y[g2].n * g2)
        ELSE IF bounds.low > 0 THEN 1
        ELSE IF bounds.high < 0 THEN -1
        ELSE IF sP = 0 \/ sP = sQ THEN sQ
        ELSE sP * SignOf(Minus(Times(P, P), Scale(Times(Q, Q), RatOfInt(pr))))

\* x < y and x >= y; every comparison with NaN is false.
Less(x, y) == ~IsNaN(x) /\ ~IsNaN(y) /\ SignOf(Minus(x, y)) < 0

AtLeast(x, y) == ~IsNaN(x) /\ ~IsNaN(y) /\ SignOf(Minus(x, y)) >= 0

\* Math.abs(x)
AbsOf(x) == IF ~IsNaN(x) /\ SignOf(x) < 0 THEN Negate(x) ELSE x

\* The largest a with a^2 dividing n; k is the next trial divisor.
RECURSIVE SquarePart(_, _)
SquarePart(n, k) ==
    IF k * k > n THEN 1
    ELSE IF n % (k * k) = 0 THEN k * SquarePart(n \div (k * k), k)
         ELSE SquarePart(n, k + 1)

\* The z-score s * sqrt(p / q) as a sum of square roots: with p = a^2 * f
\* and q = b^2 * h it is (s * a / (b * h)) * sqrt(f * h).
RealOfZ(z) ==
    IF z.q = 0 THEN NotAReal
    ELSE IF z.s = 0 THEN RealZero
    ELSE LET a == SquarePart(z.p, 2)
             b == SquarePart(z.q, 2)
             f == z.p \div (a * a)
             h == z.q \div (b * b)
         IN  [g \in {f * h} |-> Rat(z.s * a, b * h)]

\* ------------------------------------------------------------------------
\* state.js: State.settings;  math.js: getDivergence
\* ------------------------------------------------------------------------
\* cautionThreshold: 0.75, alertThreshold: 1.5
DefaultSettings ==
    [cautionThreshold |-> [n |-> 3, d |-> 4], alertThreshold |-> [n |-> 3, d |-> 2]]

\* Mutant: the thresholds compared with > in place of >=.
StatusOfStrict(divergence, s) ==
    IF Less(RealOfRat(s.alertThreshold), divergence) THEN "alert"
    ELSE IF Less(RealOfRat(s.cautionThreshold), divergence) THEN "caution"
    ELSE "harmony"

\* let status = 'harmony'; if (divergence >= alertThreshold) status = 'alert';
\* else if (divergence >= cautionThreshold) status = 'caution'.
StatusOf(divergence, s) ==
    IF AtLeast(divergence, RealOfRat(s.alertThreshold)) THEN "alert"
    ELSE IF AtLeast(divergence, RealOfRat(s.cautionThreshold)) THEN "caution"
    ELSE "harmony"

\* Mutant: const divergence = gap.
DivergenceOfSignedGap(cached, s) ==
    LET gap == Minus(RealOfZ(cached.overallZ[1]), RealOfZ(cached.indexZ[1]))
        divergence == gap
        status == StatusOf(divergence, s)
    IN  [gap |-> gap, divergence |-> divergence, status |-> status,
         overallZ |-> cached.overallZ[1], indexZ |-> cached.indexZ[1]]

\* getDivergence past its null check: gap, divergence, status.
DivergenceOf(cached, s) ==
    LET gap == Minus(RealOfZ(cached.overallZ[1]), RealOfZ(cached.indexZ[1]))
        divergence == AbsOf(gap)
        status == StatusOf(divergence, s)
    IN  [gap |-> gap, divergence |-> divergence, status |-> status,
         overallZ |-> cached.overallZ[1], indexZ |-> cached.indexZ[1]]

\* Mutant: if (!cached || cached.overallZ === null) return null; a null
\* indexZ then counts as 0 in the subtraction.
GetDivergenceInUnchecked(c, s, date) ==
    IF date \notin DOMAIN c THEN None
    ELSE IF c[date].overallZ = None THEN None
    ELSE Some(DivergenceOf(
             [c[date] EXCEPT !.indexZ =
                 IF c[date].indexZ = None THEN Some(ZeroZ) ELSE c[date].indexZ], s))

\* getDivergence(date) with State.cache = c and State.settings = s.
GetDivergenceIn(c, s, date) ==
    IF date \notin DOMAIN c THEN None
    ELSE IF c[date].indexZ = None \/ c[date].overallZ = None THEN None
    ELSE Some(DivergenceOf(c[date], s))

GetDivergence(date) == GetDivergenceIn(cache, settings, date)

\* updateInsightsPanel: getDivergence of every record's date (the status
\* shown, the last harmony date and the peak are read from these).
UpdateInsightsPanel(sorted, c, s) ==
    [i \in 1..Len(sorted) |-> GetDivergenceIn(c, s, sorted[i].date)]

\* ------------------------------------------------------------------------
\* pattern.js: zScoreDistance, findSimilarDays
\* A date is a day number, so |new Date(d1) - new Date(d2)| is the difference
\* of the day numbers times 24 * 60 * 60 * 1000.
\* Math.sqrt(x) of a sum of square roots x is kept as [squared |-> x], the
\* root that is not negative; a similarity 100 - 100 * sqrt(y) is kept as
\* [lossSquared |-> y].  Both forms are canonical.
\* ------------------------------------------------------------------------
\* const { topN = 10, ..., excludeWindow = 7 } = options
DefaultTopN == 10

DefaultExcludeWindow == 7

\* State.pattern.useAllCategories: set in state.js, assigned nowhere else.
PatternUseAllCategories == TRUE

\* similarity = Math.max(0, 100 - (distance / 3) * 100): the distance that
\* maps to 0.
SimilarityRange == 3

\* A date string no record carries.
NoSuchDate == 0

\* No options: findSimilarDays(refDate, {}).
NoOptions ==
    [topN |-> None, useAllCategories |-> None, excludeWindow |-> None, catOverride |-> None]

SqrtOf(x) == [squared |-> x]

\* Mutant: similarity = 100 - (distance / 3) * 100, Math.max left out.
SimilarityUnclamped(distance) ==
    [lossSquared |-> Scale(distance.squared, Rat(1, SimilarityRange * SimilarityRange))]

\* Math.max(0, 100 - (distance / 3) * 100):
\* 100 - 100 * sqrt(distance^2 / 9), and 0 = 100 - 100 * sqrt(1) below that.
SimilarityOf(distance) ==
    LET loss == Scale(distance.squared, Rat(1, SimilarityRange * SimilarityRange))
    IN  IF Less(RealOfRat(RatOfInt(1)), loss) THEN [lossSquared |-> RealOfRat(RatOfInt(1))]
        ELSE [lossSquared |-> loss]

\* b.similarity - a.similarity < 0 for a = x, b = y: x is the more similar.
MoreSimilar(x, y) == Less(x.similarity.lossSquared, y.similarity.lossSquared)

\* sumSquared after the loop over the categories in `shared`.
RECURSIVE SumSquared(_, _, _)
SumSquared(shared, z1, z2) ==
    IF shared = <<>> THEN RealZero
    ELSE LET diff == Minus(RealOfZ(z1[Head(shared)]), RealOfZ(z2[Head(shared)]))
         IN  Plus(Times(diff, diff), SumSquared(Tail(shared), z1, z2))

\* Mutant: a category without a z-score on one of the dates counts as 0
\* there; count is cats.length.
ZScoreDistanceMissingIsZero(date1, date2, cats) ==
    IF date1 \notin DOMAIN cache \/ date2 \notin DOMAIN cache THEN None
    ELSE LET Filled(z) == [c \in {cats[k] : k \in 1..Len(cats)} |-> IF c \in DOMAIN z THEN z[c] ELSE ZeroZ]
             count == Len(cats)
             distance == SqrtOf(Scale(SumSquared(cats, Filled(cache[date1].zScores),
                                                 Filled(cache[date2].zScores)),
                                      Rat(1, count)))
         IN  IF count = 0 THEN None
             ELSE Some([distance |-> distance, similarity |-> SimilarityOf(distance),
                        categoriesCompared |-> count])

\* Mutant: Math.sqrt(sumSquared / cats.length).
ZScoreDistanceOverCats(date1, date2, cats) ==
    IF date1 \notin DOMAIN cache \/ date2 \notin DOMAIN cache THEN None
    ELSE LET z1 == cache[date1].zScores
             z2 == cache[date2].zScores
             Shared(c) == c \in DOMAIN z1 /\ c \in DOMAIN z2
             shared == SelectSeq(cats, Shared)
             count == Len(shared)
             distance == SqrtOf(Scale(SumSquared(shared, z1, z2), Rat(1, Len(cats))))
         IN  IF count = 0 THEN None
             ELSE Some([distance |-> distance, similarity |-> SimilarityOf(distance),
                        categoriesCompared |-> count])

\* zScoreDistance(date1, date2, cats)
ZScoreDistance(date1, date2, cats) ==
    IF date1 \notin DOMAIN cache \/ date2 \notin DOMAIN cache THEN None
    ELSE LET z1 == cache[date1].zScores
             z2 == cache[date2].zScores
             Shared(c) == c \in DOMAIN z1 /\ c \in DOMAIN z2
             shared == SelectSeq(cats, Shared)
             count == Len(shared)
             distance == SqrtOf(Scale(SumSquared(shared, z1, z2), Rat(1, count)))
         IN  IF count = 0 THEN None
             ELSE Some([distance |-> distance, similarity |-> SimilarityOf(distance),
                        categoriesCompared |-> count])

\* Mutant: hidden categories are compared too.
PatternCatsWithHidden(useAllCategories) ==
    LET Chosen(c) == useAllCategories \/ c \in highlightedCats
    IN  SelectSeq(categories, Chosen)

\* cats: State.categories without the hidden ones and, unless
\* useAllCategories, without those that are not highlighted.
PatternCats(useAllCategories) ==
    LET Chosen(c) == c \notin hiddenCats /\ (useAllCategories \/ c \in highlightedCats)
    IN  SelectSeq(categories, Chosen)

\* The loop over State.data from position i on: results, in the order pushed
\* (the note of a record is left out).
RECURSIVE ScanFrom(_, _, _, _)
ScanFrom(i, refDate, cats, excludeWindow) ==
    IF i > Len(data) THEN <<>>
    ELSE LET entry == data[i]
             result == ZScoreDistance(refDate, entry.date, cats)
             rest == ScanFrom(i + 1, refDate, cats, excludeWindow)
         IN  IF entry.date = refDate THEN rest
             ELSE IF Abs(entry.date - refDate) < excludeWindow THEN rest
             ELSE IF result = None THEN rest
             ELSE <<[date |-> entry.date,
                     similarity |-> result[1].similarity,
                     distance |-> result[1].distance,
                     categoriesCompared |-> result[1].categoriesCompared,
                     overall |-> entry.overall]>> \o rest

\* Mutant: x is put before the elements it is as similar as.
InsertBySimilarityBeforeEquals(x, s) ==
    IF s = <<>> THEN <<x>>
    ELSE LET k == CHOOSE j \in 1..(Len(s) + 1) :
                      /\ \A m \in 1..(j - 1) : MoreSimilar(s[m], x)
                      /\ j <= Len(s) => ~MoreSimilar(s[j], x)
         IN  SubSeq(s, 1, k - 1) \o <<x>> \o SubSeq(s, k, Len(s))

\* x put into the sorted list s before the first element it is more similar
\* than.
InsertBySimilarity(x, s) ==
    IF s = <<>> THEN <<x>>
    ELSE LET k == CHOOSE j \in 1..(Len(s) + 1) :
                      /\ \A m \in 1..(j - 1) : ~MoreSimilar(x, s[m])
                      /\ j <= Len(s) => MoreSimilar(x, s[j])
         IN  SubSeq(s, 1, k - 1) \o <<x>> \o SubSeq(s, k, Len(s))

\* results.sort((a, b) => b.similarity - a.similarity): stable, descending.
RECURSIVE SortBySimilarity(_)
SortBySimilarity(results) ==
    IF results = <<>> THEN <<>>
    ELSE InsertBySimilarity(results[Len(results)],
                            SortBySimilarity(SubSeq(results, 1, Len(results) - 1)))

\* results.slice(0, topN)
Slice(results, topN) == SubSeq(results, 1, IF topN < Len(results) THEN topN ELSE Len(results))

OptionOr(option, default) == IF option = None THEN default ELSE option[1]

\* Mutant: a date State.pattern.results holds is skipped.
FindSimilarDaysSkippingFound(refDate, options) ==
    LET topN == OptionOr(options.topN, DefaultTopN)
        useAllCategories == OptionOr(options.useAllCategories, PatternUseAllCategories)
        excludeWindow == OptionOr(options.excludeWindow, DefaultExcludeWindow)
        cats == PatternCats(useAllCategories)
        New(x) == \A k \in 1..Len(patternResults) : patternResults[k].date # x.date
    IN  IF refDate \notin DOMAIN cache THEN <<>>
        ELSE IF cats = <<>> THEN <<>>
        ELSE Slice(SortBySimilarity(SelectSeq(ScanFrom(1, refDate, cats, excludeWindow), New)),
                   topN)

\* findSimilarDays(refDate, options)
FindSimilarDays(refDate, options) ==
    LET topN == OptionOr(options.topN, DefaultTopN)
        useAllCategories == OptionOr(options.useAllCategories, PatternUseAllCategories)
        excludeWindow == OptionOr(options.excludeWindow, DefaultExcludeWindow)
        cats == PatternCats(useAllCategories)
    IN  IF refDate \notin DOMAIN cache THEN <<>>
        ELSE IF cats = <<>> THEN <<>>
        ELSE Slice(SortBySimilarity(ScanFrom(1, refDate, cats, excludeWindow)), topN)

\* ------------------------------------------------------------------------
\* state.js: the initial State; handleFileInput's reader.onload
\* ------------------------------------------------------------------------
InitState ==
    /\ data = <<>>
    /\ categories = <<>>
    /\ cache = <<>>
    /\ active = FALSE
    /\ currentDate = None
    /\ frame = "presort"
    /\ timer = None
    /\ sortDate = None
    /\ highlightedCats = {}
    /\ hiddenCats = {}
    /\ sortMode = "auto"
    /\ patternRef = None
    /\ patternResults = <<>>
    /\ notice = "none"
    /\ settings = DefaultSettings
    /\ insights = <<>>
    /\ patternQuery = None
    /\ direction = 1
    /\ intervals = {}
    /\ restarts = 0
    /\ halted = FALSE
    /\ drawn = None
    /\ control = "none"

\* The page is open and the user has picked a file the FileReader is reading.
Init ==
    /\ InitState
    /\ \E k \in Lengths :
          \/ \E rows \in [1..k -> SoloRows] :
                pending = Some(Text(SoloCats, rows))
          \/ \E cells \in [1..k -> Overalls \X SoloCells] :
                k > 0 /\ pending = Some(Text(SoloCats, RatedRowsOf(cells)))
          \/ \E cats \in PairCatLists, cells \in [1..k -> FirstCells \X SecondCells] :
                k > 0 /\ pending = Some(Text(cats, PairRowsOf(cats, cells)))
          \/ k = 1 /\ pending \in {Some(t) : t \in BadHeaderTexts}

\* Mutant: the cache is built over the entries it holds.
LoadCSVOverOldCache(text) ==
    LET parsed == ParseCSV(text)
    IN  /\ ParseError(text) = ""
        /\ active' = FALSE
        /\ frame' = "presort"
        /\ timer' = None
        /\ intervals' = IF timer # None THEN intervals \ {timer[1]} ELSE intervals
        /\ halted' = TRUE
        /\ control' = "loadCSV"
        /\ UNCHANGED <<direction, restarts, drawn>>
        /\ sortDate' = None
        /\ highlightedCats' = {}
        /\ hiddenCats' = {}
        /\ sortMode' = "auto"
        /\ patternRef' = None
        /\ patternResults' = <<>>
        /\ patternQuery' = None
        /\ categories' = parsed.categories
        /\ data' = parsed.data
        /\ cache' = LET built == BuildPointInTimeCache(parsed.data, parsed.categories)
                    IN  [d \in DOMAIN cache \cup DOMAIN built |->
                            IF d \in DOMAIN built THEN built[d] ELSE cache[d]]
        /\ currentDate' = Some(parsed.data[Len(parsed.data)].date)

\* loadCSV(text) returns: reset, the parsed data, the rebuilt cache, and the
\* animation date on the most recent record.
LoadCSV(text) ==
    LET parsed == ParseCSV(text)
    IN  /\ ParseError(text) = ""
        /\ active' = FALSE
        /\ frame' = "presort"
        /\ timer' = None
        /\ intervals' = IF timer # None THEN intervals \ {timer[1]} ELSE intervals
        /\ halted' = TRUE
        /\ control' = "loadCSV"
        /\ UNCHANGED <<direction, restarts, drawn>>
        /\ sortDate' = None
        /\ highlightedCats' = {}
        /\ hiddenCats' = {}
        /\ sortMode' = "auto"
        /\ patternRef' = None
        /\ patternResults' = <<>>
        /\ patternQuery' = None
        /\ categories' = parsed.categories
        /\ data' = parsed.data
        /\ cache' = BuildPointInTimeCache(parsed.data, parsed.categories)
        /\ currentDate' = Some(parsed.data[Len(parsed.data)].date)

\* reader.onload, loadCSV succeeds: onDataLoaded(summary), which redraws the
\* insights panel.
FileLoaded ==
    /\ pending # None
    /\ LoadCSV(pending[1])
    /\ pending' = None
    /\ notice' = "loaded"
    /\ insights' = UpdateInsightsPanel(data', cache', settings)
    /\ UNCHANGED settings

\* Mutant: State.reset() runs before parseCSV throws.
FileRejectedAfterReset ==
    /\ pending # None
    /\ ParseError(pending[1]) # ""
    /\ pending' = None
    /\ notice' = "error"
    /\ data' = <<>>
    /\ categories' = <<>>
    /\ cache' = <<>>
    /\ active' = FALSE
    /\ currentDate' = None
    /\ frame' = "presort"
    /\ timer' = None
    /\ intervals' = IF timer # None THEN intervals \ {timer[1]} ELSE intervals
    /\ sortDate' = None
    /\ highlightedCats' = {}
    /\ hiddenCats' = {}
    /\ sortMode' = "auto"
    /\ patternRef' = None
    /\ patternResults' = <<>>
    /\ UNCHANGED <<settings, insights, patternQuery, direction, restarts, halted, drawn,
                   control>>

\* reader.onload, parseCSV throws: onDataError(err.message), State untouched.
FileRejected ==
    /\ pending # None
    /\ ParseError(pending[1]) # ""
    /\ pending' = None
    /\ notice' = "error"
    /\ UNCHANGED <<data, categories, cache, active, currentDate, frame, timer, sortDate,
                   highlightedCats, hiddenCats, sortMode, patternRef, patternResults,
                   settings, insights, patternQuery, player>>

\* loadSettings, reader.onload: the thresholds the file gives replace those
\* of State.settings (a missing or zero one leaves the setting alone).
LoadSettings(file) ==
    /\ settings' =
          [cautionThreshold |-> IF file.cautionThreshold # None
                                THEN file.cautionThreshold[1] ELSE settings.cautionThreshold,
           alertThreshold |-> IF file.alertThreshold # None
                              THEN file.alertThreshold[1] ELSE settings.alertThreshold]
    /\ UNCHANGED <<data, categories, cache, active, currentDate, frame, timer, sortDate,
                   highlightedCats, hiddenCats, sortMode, patternRef, patternResults,
                   pending, notice, insights, patternQuery, player>>

\* toggleHighlight(cat)
ToggleHighlight(cat) ==
    /\ highlightedCats' = IF cat \in highlightedCats THEN highlightedCats \ {cat}
                          ELSE highlightedCats \cup {cat}
    /\ UNCHANGED <<data, categories, cache, active, currentDate, frame, timer, sortDate,
                   hiddenCats, sortMode, patternRef, patternResults, pending, notice,
                   settings, insights, patternQuery, player>>

\* toggleHidden(cat)
ToggleHidden(cat) ==
    /\ hiddenCats' = IF cat \in hiddenCats THEN hiddenCats \ {cat} ELSE hiddenCats \cup {cat}
    /\ UNCHANGED <<data, categories, cache, active, currentDate, frame, timer, sortDate,
                   highlightedCats, sortMode, patternRef, patternResults, pending, notice,
                   settings, insights, patternQuery, player>>

\* What a search leaves in State.pattern; patternQuery keeps the call: its
\* arguments and the cats findSimilarDays compared over.
StoreSearch(refDate, options, caller) ==
    /\ patternRef' = Some(refDate)
    /\ patternResults' = FindSimilarDays(refDate, options)
    /\ patternQuery' =
          Some([refDate |-> refDate, options |-> options, caller |-> caller,
                cats |-> PatternCats(OptionOr(options.useAllCategories,
                                              PatternUseAllCategories))])
    /\ UNCHANGED <<data, categories, cache, active, currentDate, frame, timer, sortDate,
                   highlightedCats, hiddenCats, sortMode, pending, notice, settings,
                   insights, player>>

\* runPatternMatch(refDate, options), refDate a non-empty string.
RunPatternMatch(refDate, options) == StoreSearch(refDate, options, "runPatternMatch")

\* findSimilarDays(refDate, { topN: 10, ... }) in runPatternUI
PanelTopN == 10

\* getPatternSelectedCats(): every category when "All categories" is
\* checked, else the values of the checked category boxes, in page order.
GetPatternSelectedCats(useAll, ticked) ==
    LET Ticked(c) == c \in ticked
    IN  IF useAll THEN categories ELSE SelectSeq(categories, Ticked)

\* runPatternUI() with refDate in the date input and the boxes as ticked:
\* past the three error returns, the search and the store.
RunPatternUI(refDate, useAll, ticked) ==
    LET selectedCats == GetPatternSelectedCats(useAll, ticked)
    IN  /\ refDate \in DOMAIN cache
        /\ selectedCats # <<>>
        /\ StoreSearch(refDate,
                       [topN |-> Some(PanelTopN), useAllCategories |-> Some(FALSE),
                        excludeWindow |-> None, catOverride |-> Some(selectedCats)],
                       "runPatternUI")

\* ------------------------------------------------------------------------
\* animation.js
\* The period of the interval (State.animation.speed) decides when a tick
\* fires, not what it does: a tick is enabled whenever its interval runs.
\* ------------------------------------------------------------------------
\* What no control of animation.js touches.
loaded == <<data, categories, cache, highlightedCats, hiddenCats, patternRef,
            patternResults, pending, notice, settings, insights, patternQuery>>

\* sorted.indexOf(date), sorted = State.data.map(d => d.date): the first
\* index, from 0, that holds the date; -1 when none does.
IndexOf(date) ==
    LET At(i) == Some(data[i].date) = date
    IN  IF \E i \in 1..Len(data) : At(i)
        THEN (CHOOSE i \in 1..Len(data) : At(i) /\ \A j \in 1..(i - 1) : ~At(j)) - 1
        ELSE -1

\* sorted[idx]
DateAt(idx) == Some(data[idx + 1].date)

\* The handle setInterval returns: that of no interval that is running.
NewHandle ==
    CHOOSE h \in 1..(Cardinality(intervals) + 2) : h \notin intervals /\ Some(h) # timer

\* Mutant: startAnimation without its test of State.animation.active.
StartAnimationUnguarded ==
    IF Len(data) = 0 THEN UNCHANGED <<active, frame, timer, intervals>>
    ELSE /\ active' = TRUE
         /\ frame' = "presort"
         /\ timer' = Some(NewHandle)
         /\ intervals' = intervals \cup {NewHandle}

\* startAnimation(canvas)
StartAnimation ==
    IF active \/ Len(data) = 0 THEN UNCHANGED <<active, frame, timer, intervals>>
    ELSE /\ active' = TRUE
         /\ frame' = "presort"
         /\ timer' = Some(NewHandle)
         /\ intervals' = intervals \cup {NewHandle}

\* stopAnimation()
StopAnimation ==
    /\ timer' = None
    /\ intervals' = IF timer # None THEN intervals \ {timer[1]} ELSE intervals
    /\ active' = FALSE

\* btnPlay (and a tap on the canvas): pause when active, else start.
PlayPause ==
    /\ IF active THEN StopAnimation /\ UNCHANGED <<frame, halted>>
       ELSE StartAnimation /\ halted' = FALSE
    /\ control' = "panel"
    /\ UNCHANGED <<loaded, currentDate, sortDate, sortMode, direction, restarts, drawn>>

\* tick(canvas), called by the interval with handle h.
Tick(h) ==
    LET idx == IndexOf(currentDate)
        prevIdx == idx - direction
        nextIdx == idx + direction
    IN  /\ h \in intervals
        /\ control' = "tick"
        /\ IF frame = "presort"
           THEN /\ sortDate' = IF prevIdx >= 0 /\ prevIdx < Len(data) THEN DateAt(prevIdx)
                               ELSE sortDate
                /\ sortMode' = "manual"
                /\ drawn' = sortDate'
                /\ frame' = "sorted"
                /\ UNCHANGED <<currentDate, active, timer, intervals>>
           ELSE /\ drawn' = currentDate
                /\ frame' = "presort"
                /\ IF nextIdx < 0 \/ nextIdx >= Len(data)
                   THEN /\ StopAnimation
                        /\ sortMode' = "auto"
                        /\ sortDate' = None
                        /\ UNCHANGED currentDate
                   ELSE /\ currentDate' = DateAt(nextIdx)
                        /\ sortDate' = currentDate
                        /\ sortMode' = "manual"
                        /\ UNCHANGED <<active, timer, intervals>>
        /\ UNCHANGED <<loaded, direction, restarts, halted>>

\* Delayed startAnimation calls that may be waiting at one time.
MaxRestarts == 1

\* setSpeed(ms) while the animation is active: stop, and start again 10 ms
\* later.  (While it is not active setSpeed only stores the period.)
SetSpeed ==
    /\ active
    /\ restarts < MaxRestarts
    /\ StopAnimation
    /\ restarts' = restarts + 1
    /\ control' = "panel"
    /\ UNCHANGED <<loaded, currentDate, frame, sortDate, sortMode, direction, halted, drawn>>

\* The callback of setSpeed's setTimeout: startAnimation(getCanvas()).
DelayedStart ==
    /\ restarts > 0
    /\ restarts' = restarts - 1
    /\ StartAnimation
    /\ control' = "delayedStart"
    /\ UNCHANGED <<loaded, currentDate, sortDate, sortMode, direction, halted, drawn>>

\* btnDirectionToggle: setDirection(-direction)
SetDirection ==
    /\ direction' = -direction
    /\ control' = "panel"
    /\ UNCHANGED <<loaded, active, currentDate, frame, timer, sortDate, sortMode,
                   intervals, restarts, halted, drawn>>

\* The body of stepForward (by = 1) and stepBack (by = -1).
Step(by) ==
    LET idx == IndexOf(currentDate)
    IN  /\ IF ~active /\ (IF by = 1 THEN idx < Len(data) - 1 ELSE idx > 0)
           THEN /\ currentDate' = DateAt(idx + by)
                /\ sortDate' = currentDate'
                /\ sortMode' = "manual"
           ELSE UNCHANGED <<currentDate, sortDate, sortMode>>
        /\ UNCHANGED <<loaded, active, frame, timer, direction, intervals, restarts,
                       halted, drawn>>

\* stepForward(canvas)
StepForward == Step(1) /\ control' = "stepForward"

\* stepBack(canvas)
StepBack == Step(-1) /\ control' = "stepBack"

\* handleKeydown(e), the canvas set: ArrowRight steps forward, ArrowLeft back.
HandleKeydown(key) ==
    /\ Step(IF key = "ArrowRight" THEN 1 ELSE -1)
    /\ control' = IF key = "ArrowRight" THEN "stepForward" ELSE "stepBack"

\* Mutant: jumpToDate without its test of State.cache[date].
JumpToDateUnchecked(date) ==
    /\ StopAnimation
    /\ currentDate' = date
    /\ sortDate' = date
    /\ sortMode' = "manual"
    /\ halted' = TRUE
    /\ control' = "jumpToDate"
    /\ UNCHANGED <<loaded, frame, direction, restarts, drawn>>

\* jumpToDate(date, canvas); date is None for null.
JumpToDate(date) ==
    /\ StopAnimation
    /\ IF date # None /\ date[1] \in DOMAIN cache
       THEN /\ currentDate' = date
            /\ sortDate' = date
            /\ sortMode' = "manual"
       ELSE UNCHANGED <<currentDate, sortDate, sortMode>>
    /\ halted' = TRUE
    /\ control' = "jumpToDate"
    /\ UNCHANGED <<loaded, frame, direction, restarts, drawn>>

\* resetToLatest(canvas); sorted[sorted.length - 1] is undefined on no data.
ResetToLatest ==
    /\ StopAnimation
    /\ currentDate' = IF Len(data) > 0 THEN DateAt(Len(data) - 1) ELSE None
    /\ sortMode' = "auto"
    /\ sortDate' = None
    /\ halted' = TRUE
    /\ control' = "panel"
    /\ UNCHANGED <<loaded, frame, direction, restarts, drawn>>

\* handleFileInput(event): the user picks a file and the reader starts.
PickFile(text) ==
    /\ pending = None
    /\ pending' = Some(text)
    /\ UNCHANGED <<data, categories, cache, active, currentDate, frame, timer, sortDate,
                   highlightedCats, hiddenCats, sortMode, patternRef, patternResults,
                   notice, settings, insights, patternQuery, player>>

Next == FileLoaded \/ FileRejected

Spec == Init /\ [][Next]_vars

\* ------------------------------------------------------------------------
\* Properties of the cache
\* ------------------------------------------------------------------------
Positions == 1..Len(data)

\* The entry the build stored for the record at position i: read from
\* State.cache, unless a later record of the same date has overwritten it.
EntryAt(i) ==
    IF LastIndexOf(data, data[i].date) = i THEN cache[data[i].date]
    ELSE EntryOf(data, categories, i)

CategorySet == {categories[k] : k \in 1..Len(categories)}

\* The positions up to i whose record has a value for category c.
Observed(c, i) == {j \in 1..i : data[j].values[c] # None}

\* The categories the record at position i has a value for.
PresentCats(i) == {c \in CategorySet : data[i].values[c] # None}

\* The positions up to i whose record has a value for some category.
Averaged(i) == {j \in 1..i : PresentCats(j) # {}}

RECURSIVE SumOver(_, _)
SumOver(S, f) ==
    IF S = {} THEN 0
    ELSE LET x == CHOOSE y \in S : TRUE IN f[x] + SumOver(S \ {x}, f)

ZEqual(z1, z2) == ~ZLess(z1, z2) /\ ~ZLess(z2, z1)

\* C1. Causality: for every k, the cache built from the first k records alone
\* has, at each of their dates, the entry the cache built from all records has.
Causality ==
    \A k \in Positions :
        LET prefix == SubSeq(data, 1, k)
            built == BuildPointInTimeCache(prefix, categories)
        IN  \A d \in DatesOf(prefix) : d \in DOMAIN cache /\ built[d] = cache[d]

\* C2. After a build the cache has exactly one entry per record: as many keys
\* as records, and the keys are the record dates; no record, no entry.
OneEntryPerRecord ==
    /\ Cardinality(DOMAIN cache) = Len(data)
    /\ DOMAIN cache = DatesOf(data)
    /\ BuildPointInTimeCache(<<>>, categories) = <<>>

\* C3. A category has a z-score on a date exactly when the day's own value is
\* present and at least 2 values of it are observed up to that date.
ZScoreKeys ==
    \A i \in Positions : \A c \in CategorySet :
        c \in DOMAIN EntryAt(i).zScores
            <=> (data[i].values[c] # None /\ Cardinality(Observed(c, i)) >= 2)

ZScoreKeysSeen ==
    \E i \in Positions : \E c \in CategorySet :
        /\ notice = "loaded"
        /\ c \in DOMAIN cache[data[i].date].zScores
        /\ \E j \in Positions : data[j].values[c] = None /\ Cardinality(Observed(c, j)) >= 2
        /\ \E j \in Positions : data[j].values[c] # None /\ Cardinality(Observed(c, j)) < 2

\* C4. Rank validity: ranks has the keys of zScores, the ranks are exactly
\* 1..K, and a smaller rank never has a larger z-score.
RankValidity ==
    \A i \in Positions :
        LET e == EntryAt(i)
        IN  /\ DOMAIN e.ranks = DOMAIN e.zScores
            /\ {e.ranks[c] : c \in DOMAIN e.ranks} = 1..Cardinality(DOMAIN e.zScores)
            /\ \A a, b \in DOMAIN e.zScores :
                  e.ranks[a] < e.ranks[b] => ~ZLess(e.zScores[b], e.zScores[a])

RankValiditySeen ==
    \E i \in Positions :
        LET e == cache[data[i].date]
        IN  /\ notice = "loaded"
            /\ Cardinality(DOMAIN e.zScores) = 2
            /\ \E a, b \in DOMAIN e.zScores :
                  /\ ZLess(e.zScores[a], e.zScores[b])
                  /\ e.ranks[a] = 1
                  /\ e.ranks[b] = 2
                  /\ categories = <<b, a>>

\* C5. Rank tie-break: of two categories with equal z-scores on a date, the
\* one that comes first in State.categories has the smaller rank.
RankTieBreak ==
    \A i \in Positions :
        LET e == EntryAt(i)
        IN  \A ka, kb \in 1..Len(categories) :
                (/\ ka < kb
                 /\ categories[ka] \in DOMAIN e.zScores
                 /\ categories[kb] \in DOMAIN e.zScores
                 /\ ZEqual(e.zScores[categories[ka]], e.zScores[categories[kb]]))
                => e.ranks[categories[ka]] < e.ranks[categories[kb]]

\* C6. Insufficient history gives null, never 0: indexZ is null with fewer
\* than 2 daily averages up to the date or no average that day, overallZ is
\* null with fewer than 2 ratings, and the first record has no z-score at all.
InsufficientHistoryIsNull ==
    \A i \in Positions :
        LET e == EntryAt(i)
        IN  /\ (Cardinality(Averaged(i)) < 2 \/ PresentCats(i) = {}) => e.indexZ = None
            /\ i < 2 => e.overallZ = None
            /\ i = 1 => (e.zScores = <<>> /\ e.ranks = <<>> /\ e.indexZ = None)

InsufficientHistorySeen ==
    /\ notice = "loaded"
    /\ Len(data) = 3
    /\ cache[data[1].date].overallZ = None
    /\ PresentCats(1) # {}
    /\ PresentCats(2) = {}
    /\ PresentCats(3) # {}
    /\ cache[data[2].date].indexZ = None
    /\ cache[data[2].date].overallZ # None
    /\ cache[data[3].date].indexZ # None

\* C7. rawAvg is the sum of the day's present values divided by their number,
\* and null exactly when the day has no value.
RawAvgOfPresentValues ==
    \A i \in Positions :
        LET e == EntryAt(i)
            present == PresentCats(i)
            value == [c \in present |-> data[i].values[c][1]]
        IN  /\ e.rawAvg = None <=> present = {}
            /\ present # {} =>
                  e.rawAvg[1].n * Cardinality(present) = e.rawAvg[1].d * SumOver(present, value)

RawAvgSeen ==
    \E i, j \in Positions :
        /\ notice = "loaded"
        /\ Len(categories) = 2
        /\ Cardinality(PresentCats(i)) = 1
        /\ cache[data[i].date].rawAvg = Some([n |-> 2, d |-> 1])
        /\ cache[data[j].date].rawAvg = None

\* The daily averages up to position i, over a common denominator.
CommonDenominator(i) ==
    LET d == [j \in Averaged(i) |-> EntryAt(j).rawAvg[1].d]
    IN  LCMSeq([k \in 1..i |-> IF k \in Averaged(i) THEN d[k] ELSE 1])

\* The daily average at position j over the denominator M.
Numerator(M, j) ==
    LET r == EntryAt(j).rawAvg[1] IN r.n * (M \div r.d)

\* C8. indexZ is the z-score of the average: the day's raw average minus the
\* mean of the daily raw averages up to the day, divided by their population
\* deviation (by 1 when that is 0); defined with 2 or more of them.
IndexIsZOfAverage ==
    \A i \in Positions :
        LET e == EntryAt(i)
            J == Averaged(i)
            h == Cardinality(J)
            M == CommonDenominator(i)
            x == [j \in J |-> Numerator(M, j)]
            xx == [j \in J |-> x[j] * x[j]]
            dev == h * x[i] - SumOver(J, x)
            D == h * SumOver(J, xx) - SumOver(J, x) * SumOver(J, x)
        IN  /\ e.indexZ # None <=> (i \in J /\ h >= 2)
            /\ e.indexZ # None =>
                  LET z == e.indexZ[1]
                  IN  /\ z.s = Sign(dev)
                      /\ z.q > 0
                      /\ IF D = 0 THEN z.p * (h * M) * (h * M) = z.q * dev * dev
                         ELSE z.p * D = z.q * dev * dev

\* n^2 times the population variance of category c up to position i.
SpreadOf(c, i) ==
    LET v == [j \in Observed(c, i) |-> data[j].values[c][1]]
        vv == [j \in Observed(c, i) |-> v[j] * v[j]]
    IN  Cardinality(Observed(c, i)) * SumOver(Observed(c, i), vv)
        - SumOver(Observed(c, i), v) * SumOver(Observed(c, i), v)

\* A date on which two categories of different (non-zero) variance both have
\* a z-score and indexZ is above both: it is not their mean.
IndexDiffersFromMeanOfZ ==
    \E i \in Positions :
        LET e == cache[data[i].date]
        IN  /\ notice = "loaded"
            /\ Len(categories) = 2
            /\ DOMAIN e.zScores = CategorySet
            /\ e.indexZ # None
            /\ LET a == categories[1]
                   b == categories[2]
                   na == Cardinality(Observed(a, i))
                   nb == Cardinality(Observed(b, i))
               IN  /\ SpreadOf(a, i) > 0
                   /\ SpreadOf(b, i) > 0
                   /\ SpreadOf(a, i) * nb * nb # SpreadOf(b, i) * na * na
                   /\ ZLess(e.zScores[a], e.indexZ[1])
                   /\ ZLess(e.zScores[b], e.indexZ[1])

\* C9. With exactly one category indexZ is that category's z-score, and both
\* are absent together (too little history, or no value that day).
SoloIndexIsZScore ==
    Len(categories) = 1 =>
        \A i \in Positions :
            LET e == EntryAt(i)
                c == categories[1]
            IN  /\ c \in DOMAIN e.zScores => e.indexZ = Some(e.zScores[c])
                /\ c \notin DOMAIN e.zScores => e.indexZ = None
                /\ data[i].values[c] = None => (c \notin DOMAIN e.zScores /\ e.indexZ = None)

SoloIndexSeen ==
    \E i, j \in Positions :
        LET e == cache[data[i].date]
        IN  /\ notice = "loaded"
            /\ Len(categories) = 1
            /\ i > j
            /\ DOMAIN e.zScores = CategorySet
            /\ e.zScores[categories[1]].s # 0
            /\ e.indexZ = Some(e.zScores[categories[1]])
            /\ data[j].values[categories[1]] = None
            /\ cache[data[j].date].indexZ = None

SettingsFiles ==
    {[cautionThreshold |-> Some(RatOfInt(1)), alertThreshold |-> Some(RatOfInt(2))],
     [cautionThreshold |-> Some(RatOfInt(2)), alertThreshold |-> Some(RatOfInt(3))],
     [cautionThreshold |-> None, alertThreshold |-> Some(RatOfInt(2))]}

\* The page is open and the user has picked a file with a rating that varies.
InitDivergence ==
    /\ InitState
    /\ \E k \in 1..MaxRows :
          \/ \E cells \in [1..k -> Overalls \X SoloCells] :
                pending = Some(Text(SoloCats, RatedRowsOf(cells)))
          \/ k = 1 /\ pending \in {Some(t) : t \in BadHeaderTexts}

NextDivergence ==
    \/ FileLoaded
    \/ FileRejected
    \/ \E file \in SettingsFiles : LoadSettings(file)

SpecDivergence == InitDivergence /\ [][NextDivergence]_vars

CautionOf(s) == RealOfRat(s.cautionThreshold)

AlertOf(s) == RealOfRat(s.alertThreshold)

NoDivergenceIffNull ==
    /\ \A date \in DatesOf(data) \cup {0} :
          GetDivergence(date) = None
              <=> (\/ date \notin DOMAIN cache
                   \/ cache[date].indexZ = None
                   \/ cache[date].overallZ = None)
    /\ Len(data) > 0 =>
          GetDivergenceIn([d \in {data[1].date} |-> EntryAt(1)], settings, data[1].date) = None

NoDivergenceSeen ==
    /\ notice = "loaded"
    /\ \E i, j \in Positions :
          /\ insights[i] = None
          /\ cache[data[i].date].overallZ # None
          /\ cache[data[i].date].indexZ = None
          /\ insights[j] # None
    /\ GetDivergence(0) = None

Band(status) == CASE status = "harmony" -> 0 [] status = "caution" -> 1 [] status = "alert" -> 2

\* C13. Exchanging overallZ and indexZ negates gap and leaves divergence and
\* status as they are; gap > 0 exactly when overallZ > indexZ; of two dates,
\* the one with the larger divergence is never in a lower band.
DivergenceSymmetry ==
    /\ \A i \in Positions :
          LET e == cache[data[i].date]
              r == DivergenceOf(e, settings)
              x == DivergenceOf([e EXCEPT !.overallZ = e.indexZ, !.indexZ = e.overallZ],
                                settings)
          IN  (e.indexZ # None /\ e.overallZ # None) =>
                  /\ x.gap = Negate(r.gap)
                  /\ x.divergence = r.divergence
                  /\ x.status = r.status
                  /\ SignOf(r.gap) > 0 <=> ZLess(e.indexZ[1], e.overallZ[1])
    /\ \A i, j \in Positions :
          LET ri == GetDivergence(data[i].date)
              rj == GetDivergence(data[j].date)
          IN  (ri # None /\ rj # None /\ ~Less(rj[1].divergence, ri[1].divergence))
                  => Band(ri[1].status) <= Band(rj[1].status)

DivergenceSymmetrySeen ==
    /\ notice = "loaded"
    /\ \E i, j \in Positions :
          /\ insights[i] # None
          /\ insights[j] # None
          /\ SignOf(insights[i][1].gap) < 0
          /\ SignOf(insights[j][1].gap) > 0
          /\ Less(insights[i][1].divergence, insights[j][1].divergence)
          /\ Band(insights[i][1].status) < Band(insights[j][1].status)

\* ------------------------------------------------------------------------
\* The similarity search
\* ------------------------------------------------------------------------
\* Rows of the files searched.
MaxSearchRows == 4

\* The dates of the rows: 1, 7 and 8 days apart.
SearchDates == <<1, 2, 9, 17, 25, 33>>

SearchCats == <<"a", "b">>

\* The cells (a, b) of the first row and of a later row.
FirstSearchCells == <<Some(1), None>>

SearchCells == {<<Some(1), None>>, <<Some(0), Some(1)>>, <<Some(3), Some(2)>>}

SearchRowsOf(cells) ==
    [k \in 1..MaxSearchRows |->
        LET ab == IF k = 1 THEN FirstSearchCells ELSE cells[k - 1]
        IN  [date |-> Some(SearchDates[k]), overall |-> FlatOverall,
             values |-> [c \in {"a", "b"} |-> IF c = "a" THEN ab[1] ELSE ab[2]]]]

\* Options a caller of runPatternMatch passes.
SearchOptions ==
    {NoOptions,
     [topN |-> Some(1), useAllCategories |-> Some(FALSE), excludeWindow |-> Some(0),
      catOverride |-> None]}

\* The page is open and the user has picked a file.
InitSearch ==
    /\ InitState
    /\ \/ \E cells \in [1..(MaxSearchRows - 1) -> SearchCells] :
             pending = Some(Text(SearchCats, SearchRowsOf(cells)))
       \/ pending \in {Some(t) : t \in BadHeaderTexts}

\* One search per load is explored: the view is set up, then a search runs.
\* (What a search stores is read by no later search.)
NextSearch ==
    \/ FileLoaded
    \/ FileRejected
    \/ /\ patternQuery = None
       /\ \/ \E cat \in {categories[k] : k \in 1..Len(categories)} : ToggleHighlight(cat)
          \/ \E cat \in {categories[k] : k \in 1..Len(categories)} : ToggleHidden(cat)
          \/ \E refDate \in DatesOf(data) \cup {NoSuchDate}, options \in SearchOptions :
                RunPatternMatch(refDate, options)
          \/ \E refDate \in DatesOf(data) \cup {NoSuchDate}, useAll \in BOOLEAN,
                ticked \in SUBSET {categories[k] : k \in 1..Len(categories)} :
                RunPatternUI(refDate, useAll, ticked)

SpecSearch == InitSearch /\ [][NextSearch]_vars

\* The last search: its reference date, window, cap and compared categories.
QueryRef == patternQuery[1].refDate

QueryWindow == OptionOr(patternQuery[1].options.excludeWindow, DefaultExcludeWindow)

QueryTopN == OptionOr(patternQuery[1].options.topN, DefaultTopN)

QueryCats == patternQuery[1].cats

Matches == 1..Len(patternResults)

\* C14. Exclusion window: a search with window w returns no match at a
\* distance of w days or fewer from the reference date, and never the
\* reference date itself.
ExclusionWindow ==
    patternQuery # None =>
        \A k \in Matches :
            /\ patternResults[k].date # QueryRef
            /\ Abs(patternResults[k].date - QueryRef) > QueryWindow

\* C15. A search run from the pattern panel compares over exactly the ticked
\* categories: its results are those of the scan over the ticked categories,
\* whatever is highlighted.
PanelSearchOverTicked ==
    (patternQuery # None /\ patternQuery[1].caller = "runPatternUI") =>
        /\ QueryCats = patternQuery[1].options.catOverride[1]
        /\ patternResults =
              Slice(SortBySimilarity(ScanFrom(1, QueryRef,
                                              patternQuery[1].options.catOverride[1],
                                              QueryWindow)),
                    QueryTopN)

\* The candidates the last search scored, in State.data order.
Eligible == ScanFrom(1, QueryRef, QueryCats, QueryWindow)

SameSimilarity(x, y) == ~MoreSimilar(x, y) /\ ~MoreSimilar(y, x)

Returned(x) == \E k \in Matches : patternResults[k] = x

\* C16. The results are the first topN of the eligible candidates sorted by
\* similarity descending, equal similarities in State.data order: at most
\* topN (all of them when there are fewer), similarities non-increasing, ties
\* in chronological order, and no omitted candidate ahead of a returned one.
TopNSorted ==
    patternQuery # None =>
        LET eligible == Eligible
            omitted == {i \in 1..Len(eligible) : ~Returned(eligible[i])}
        IN  /\ Len(patternResults) =
                  IF QueryTopN < Len(eligible) THEN QueryTopN ELSE Len(eligible)
            /\ \A k \in Matches : \E i \in 1..Len(eligible) : eligible[i] = patternResults[k]
            /\ \A k, l \in Matches :
                  k < l =>
                      /\ ~MoreSimilar(patternResults[l], patternResults[k])
                      /\ patternResults[k].date # patternResults[l].date
                      /\ SameSimilarity(patternResults[k], patternResults[l])
                            => patternResults[k].date < patternResults[l].date
            /\ \A i \in omitted : \A k \in Matches :
                  /\ ~MoreSimilar(eligible[i], patternResults[k])
                  /\ SameSimilarity(eligible[i], patternResults[k])
                        => patternResults[k].date < eligible[i].date

TopNSortedSeen ==
    /\ patternQuery # None
    /\ Len(patternResults) = QueryTopN
    /\ LET eligible == Eligible
       IN  \E i \in 1..Len(eligible) :
              /\ ~Returned(eligible[i])
              /\ SameSimilarity(eligible[i], patternResults[1])

RealOne == RealOfRat(RatOfInt(1))

\* The categories of the last search with a z-score on the reference date
\* and on date.
SharedWith(date) ==
    {c \in {QueryCats[k] : k \in 1..Len(QueryCats)} :
        c \in DOMAIN cache[QueryRef].zScores /\ c \in DOMAIN cache[date].zScores}

OutsideWindow(i) ==
    data[i].date # QueryRef /\ Abs(data[i].date - QueryRef) >= QueryWindow

\* C18. A record that shares no category with a z-score on both dates, within
\* the compared categories, is not among the results, nor is a date without
\* a cache entry scored; every match has categoriesCompared between 1 and
\* the number of compared categories.
NoOverlapExcluded ==
    patternQuery # None =>
        /\ QueryRef \in DOMAIN cache =>
              \A i \in Positions :
                  SharedWith(data[i].date) = {}
                      => \A k \in Matches : patternResults[k].date # data[i].date
        /\ ZScoreDistance(QueryRef, NoSuchDate, QueryCats) = None
        /\ \A k \in Matches :
              /\ patternResults[k].categoriesCompared >= 1
              /\ patternResults[k].categoriesCompared <= Len(QueryCats)
              /\ patternResults[k].categoriesCompared
                    = Cardinality(SharedWith(patternResults[k].date))

NoOverlapExcludedSeen ==
    /\ patternQuery # None
    /\ QueryRef \in DOMAIN cache
    /\ Len(patternResults) >= 1
    /\ \E i \in Positions :
          /\ OutsideWindow(i)
          /\ SharedWith(data[i].date) = {}
          /\ DOMAIN cache[data[i].date].zScores # {}

\* The categories of S in the order of State.categories.
CatsOf(S) == LET In(c) == c \in S IN SelectSeq(categories, In)

\* C19. The distance of a record from the reference date depends only on the
\* categories with a z-score on both dates: zScoreDistance is the same over
\* the compared categories, over the shared ones alone, and with a category
\* added that one of the dates has no z-score for; and it is the same with
\* the two dates exchanged.
SharedCategoriesOnly ==
    (patternQuery # None /\ QueryRef \in DOMAIN cache) =>
        \A i \in Positions :
            LET date == data[i].date
                full == ZScoreDistance(QueryRef, date, QueryCats)
                compared == {QueryCats[k] : k \in 1..Len(QueryCats)}
            IN  /\ ZScoreDistance(QueryRef, date, CatsOf(SharedWith(date))) = full
                /\ \A c \in CategorySet \ compared :
                      (c \notin DOMAIN cache[QueryRef].zScores
                       \/ c \notin DOMAIN cache[date].zScores)
                          => ZScoreDistance(QueryRef, date, CatsOf(compared \cup {c})) = full
                /\ ZScoreDistance(date, QueryRef, QueryCats) = full
                /\ \A k \in Matches :
                      patternResults[k].date = date =>
                          /\ full # None
                          /\ patternResults[k].distance = full[1].distance
                          /\ patternResults[k].similarity = full[1].similarity
                          /\ patternResults[k].categoriesCompared = full[1].categoriesCompared

SharedCategoriesOnlySeen ==
    /\ patternQuery # None
    /\ \E k \in Matches :
          /\ Len(QueryCats) = 2
          /\ patternResults[k].categoriesCompared = 1
          /\ "b" \in DOMAIN cache[QueryRef].zScores
          /\ "b" \notin DOMAIN cache[patternResults[k].date].zScores
          /\ patternResults[k].distance.squared # RealZero

\* C20. findSimilarDays returns the empty list when the reference date has no
\* cache entry, when no category is left to compare (none that is not hidden
\* and, unless useAllCategories, highlighted), and when there is no record.
EmptySearch ==
    patternQuery # None =>
        LET useAllCategories == OptionOr(patternQuery[1].options.useAllCategories,
                                        PatternUseAllCategories)
            toCompare == {c \in CategorySet :
                             /\ c \notin hiddenCats
                             /\ useAllCategories \/ c \in highlightedCats}
        IN  /\ QueryRef \notin DOMAIN cache => patternResults = <<>>
            /\ toCompare = {} => patternResults = <<>>
            /\ Len(data) = 0 => patternResults = <<>>

EmptySearchSeen ==
    /\ patternQuery # None
    /\ QueryRef \in DOMAIN cache
    /\ QueryCats = <<>>
    /\ hiddenCats = CategorySet
    /\ patternResults = <<>>
    /\ ScanFrom(1, QueryRef, categories, QueryWindow) # <<>>

\* ------------------------------------------------------------------------
\* The animation, the controls and the loads
\* ------------------------------------------------------------------------
\* Rows of the files the user picks while using the controls.
MaxPlayRows == 3

\* The dates of the rows, as the file lists them: all different, or with a
\* date that a later row repeats.
DistinctDays == <<3, 1, 2, 4, 5>>

RepeatedDays == <<2, 1, 2, 3, 3>>

PlayRowsOf(days, k) ==
    [i \in 1..k |->
        [date |-> Some(days[i]), overall |-> FlatOverall, values |-> SoloValues(Some(i))]]

\* A file parseCSV rejects for having no valid row, and one with no data row.
NoValidRowText ==
    Text(SoloCats, <<[date |-> None, overall |-> FlatOverall, values |-> SoloValues(Some(1))]>>)

NoDataRowText == Text(SoloCats, <<>>)

PlayerTexts ==
    {Text(SoloCats, PlayRowsOf(days, k)) : days \in {DistinctDays, RepeatedDays},
                                           k \in {1, MaxPlayRows}}
    \cup BadHeaderTexts \cup {NoValidRowText, NoDataRowText}

\* The files picked while every control is in use: one with and one without
\* a repeated date, one of a single row, one that parseCSV rejects.
PlayTexts ==
    {Text(SoloCats, PlayRowsOf(DistinctDays, MaxPlayRows)),
     Text(SoloCats, PlayRowsOf(RepeatedDays, MaxPlayRows)),
     Text(SoloCats, PlayRowsOf(RepeatedDays, 1)),
     NoDataRowText}

\* Arguments of jumpToDate: a date of the file, a date without data, null.
JumpDates == {Some(d) : d \in DatesOf(data) \cup {NoSuchDate}} \cup {None}

InitPlayer == InitState /\ pending = None

\* The controls and the timers neither read nor write the text the reader
\* holds, and picking a file changes nothing else: a control that runs
\* between the pick and the reader's onload runs to the same effect before
\* the pick, and that is the order taken here.
NextPlayer ==
    \/ \E text \in PlayTexts : PickFile(text)
    \/ FileLoaded
    \/ FileRejected
    \/ pending = None /\ PlayPause
    \/ pending = None /\ \E h \in intervals : Tick(h)
    \/ pending = None /\ SetSpeed
    \/ pending = None /\ DelayedStart
    \/ pending = None /\ SetDirection
    \/ pending = None /\ StepForward
    \/ pending = None /\ StepBack
    \/ pending = None /\ \E key \in {"ArrowRight", "ArrowLeft"} : HandleKeydown(key)
    \/ pending = None /\ \E date \in JumpDates : JumpToDate(date)
    \/ pending = None /\ ResetToLatest

SpecPlayer == InitPlayer /\ [][NextPlayer]_vars

CacheMatchesData ==
    /\ DOMAIN cache = DatesOf(data)
    /\ Len(data) > 0 => cache = BuildPointInTimeCache(data, categories)
    /\ Len(data) > 0 => DOMAIN cache # {}

\* A file has replaced, while a delayed start was waiting, a dataset whose
\* date a tick had drawn and which the new records do not have.
CacheMatchesDataSeen ==
    /\ control = "loadCSV"
    /\ drawn # None
    /\ drawn[1] \notin DatesOf(data)
    /\ Cardinality(DOMAIN cache) = 2
    /\ restarts > 0

\* C23. After a load State.data is in ascending order of date and no two of
\* its records have the same date.
SortedWithoutDuplicates ==
    notice = "loaded" =>
        \A i, j \in Positions : i < j => data[i].date < data[j].date

\* The page with a file input, the Play button, its timer and the pattern
\* search: loads, accepted and rejected, while an animation runs and after
\* a search has stored its results.
ReloadOptions ==
    [topN |-> Some(1), useAllCategories |-> Some(TRUE), excludeWindow |-> Some(0),
     catOverride |-> None]

NextReload ==
    \/ \E text \in PlayerTexts : PickFile(text)
    \/ FileLoaded
    \/ FileRejected
    \/ PlayPause
    \/ \E h \in intervals : Tick(h)
    \/ StepBack
    \/ /\ patternQuery = None
       /\ \E refDate \in DatesOf(data) : RunPatternMatch(refDate, ReloadOptions)

SpecReload == InitPlayer /\ [][NextReload]_vars

\* C24. A failed load changes nothing: when parseCSV rejects the text the
\* reader delivers, State is after the step as it was before it, and the
\* handler reports through onDataError; else it reports through
\* onDataLoaded.  The four kinds of text parseCSV rejects are rejected.
FailedLoadChangesNothing ==
    /\ [](\A text \in BadHeaderTexts \cup {NoValidRowText, NoDataRowText} :
              ParseError(text) # "")
    /\ [][(pending # None /\ pending' = None) =>
              IF ParseError(pending[1]) # ""
              THEN /\ notice' = "error"
                   /\ UNCHANGED <<data, categories, cache, active, currentDate, frame, timer,
                                  sortDate, highlightedCats, hiddenCats, sortMode,
                                  patternRef, patternResults, settings, direction,
                                  intervals, restarts>>
              ELSE notice' = "loaded"
         ]_vars

\* A load has failed while the animation of a loaded file was running and
\* the results of a search on that file were stored.
FailedLoadSeen ==
    /\ notice = "error"
    /\ pending = None
    /\ Len(data) = MaxPlayRows
    /\ active
    /\ frame = "sorted"
    /\ sortMode = "manual"
    /\ currentDate # Some(data[Len(data)].date)
    /\ patternRef # None
    /\ Len(patternResults) >= 1

\* A step of tick: the only control that changes State.animation.frame
\* without being a start or a load.
TickStep == control' = "tick" /\ frame' # frame

\* C25. Two-frame beat: a tick on the presort frame draws with sortDate the
\* date one position against the direction (when there is one), leaves
\* currentDate and makes the frame sorted; a tick on the sorted frame draws
\* with sortDate = currentDate, makes the frame presort and moves
\* currentDate one position in the direction (when there is one): a date is
\* shown for two ticks.
TwoFrameBeat ==
    [][TickStep =>
          LET idx == IndexOf(currentDate)
              prevIdx == idx - direction
              nextIdx == idx + direction
          IN  IF frame = "presort"
              THEN /\ frame' = "sorted"
                   /\ currentDate' = currentDate
                   /\ (prevIdx >= 0 /\ prevIdx < Len(data)) => drawn' = DateAt(prevIdx)
              ELSE /\ frame' = "presort"
                   /\ drawn' = currentDate
                   /\ IF nextIdx >= 0 /\ nextIdx < Len(data)
                      THEN IndexOf(currentDate') = nextIdx
                      ELSE currentDate' = currentDate
      ]_vars

\* An animation that is left alone: files are loaded and the date and the
\* direction chosen while nothing plays; after the start only the interval
\* acts, until the animation has stopped.  setInterval keeps calling tick
\* while the interval runs, so a tick that stays enabled is taken.
NextRun ==
    \/ ~active /\ \E text \in PlayerTexts : PickFile(text)
    \/ ~active /\ FileLoaded
    \/ ~active /\ FileRejected
    \/ ~active /\ SetDirection
    \/ ~active /\ \E date \in JumpDates : JumpToDate(date)
    \/ ~active /\ PlayPause
    \/ \E h \in intervals : Tick(h)

SpecRun == InitPlayer /\ [][NextRun]_vars /\ WF_vars(\E h \in intervals : Tick(h))

\* The record the animation runs towards: the last one forwards, the first
\* one backwards.
BoundaryDate == IF direction = 1 THEN DateAt(Len(data) - 1) ELSE DateAt(0)

\* C26. The animation terminates at the boundary: an animation started on
\* any date and left alone eventually stops by itself, and then active is
\* false, the timer is cleared, sortMode is 'auto', view.sortDate is null
\* and currentDate is the boundary date.
StopsAtBoundary ==
    active ~> /\ ~active
              /\ timer = None
              /\ intervals = {}
              /\ sortMode = "auto"
              /\ sortDate = None
              /\ Len(data) > 0
              /\ currentDate = BoundaryDate

\* C27. Timer invariant: State.animation.active is true exactly when
\* State.animation.timer holds the handle of an interval that runs, and at
\* most one interval runs at any time: the one the timer field holds.
TimerInvariant ==
    /\ active <=> (timer # None /\ timer[1] \in intervals)
    /\ Cardinality(intervals) <= 1
    /\ \A h \in intervals : timer = Some(h)

\* The delayed start of a speed change has run while an animation started
\* in between was on its sorted frame: a second start while active.
SecondStartSeen ==
    /\ control = "delayedStart"
    /\ active
    /\ frame = "sorted"
    /\ Cardinality(intervals) = 1

\* C28. Stopping controls stay stopped: once jumpToDate, resetToLatest or
\* a data load has run, the animation is inactive until the user starts it
\* again with the Play button or a tap (halted holds from such a control to
\* the next start by the user).
StoppedStaysStopped == halted => ~active

StepControls == {"stepForward", "stepBack"}

StepTaken == control' \in StepControls /\ pending' = pending

\* C30. Manual stepping is inert while the animation plays and at the
\* ends: a step leaves currentDate, view.sortDate and sortMode unchanged
\* when the animation is active, and when it is forwards on the last date
\* or backwards on the first one; any other step moves currentDate by one
\* record and sets sortDate = currentDate and sortMode 'manual'.
SteppingIsInert ==
    [][StepTaken =>
          LET by == IF control' = "stepForward" THEN 1 ELSE -1
              atEnd == currentDate = (IF by = 1 THEN DateAt(Len(data) - 1) ELSE DateAt(0))
          IN  IF active \/ Len(data) = 0 \/ atEnd
              THEN UNCHANGED <<currentDate, sortDate, sortMode>>
              ELSE /\ IndexOf(currentDate') = IndexOf(currentDate) + by
                   /\ sortDate' = currentDate'
                   /\ sortMode' = "manual"
      ]_vars

====
